---- MODULE Spec2Model ----
(***************************************************************************)
(* Model of golf_scheduler.py: the scheduling core (check_pair_uniqueness, *)
(* generate_weekly_groups, create_schedule) and the result formatter       *)
(* (format_schedule_to_dataframe).                                         *)
(*                                                                         *)
(* Participants are modelled by their rank in the string order, so that    *)
(* Python's sorted() on names is the numeric order on 1..NumGolfers.       *)
(***************************************************************************)
EXTENDS Integers, Sequences, FiniteSets, TLC

(* ------------------------------ bounds --------------------------------- *)
NumGolfers == 4
MaxRosterLen == 4
MaxWeeks == 2
NumFmtPlayers == 2
MaxFmtGroupLen == 2
MaxFmtGroups == 2
MaxFmtRounds == 2
MaxFmtCalls == 2
NumChkGolfers == 3
MaxChkGroupLen == 3
MaxUploadRows == 4
MaxPad == 1

(* ------------------------- program constants --------------------------- *)
GROUP_SIZE == 4
MAX_ATTEMPTS_PER_WEEK == 3000

(* The names bound at module level by the import statements.  The module  *)
(* uses itertools.combinations but never imports itertools.               *)
ModuleGlobals == {"st", "pd", "random", "io", "Path"}

ItertoolsDefined == "itertools" \in ModuleGlobals

(* ------------------------------ inputs --------------------------------- *)
Golfers == 1..NumGolfers

SeqsUpTo(S, n) == UNION {[1..k -> S] : k \in 0..n}

Rosters == SeqsUpTo(Golfers, MaxRosterLen)

GroupSizes == 1..GROUP_SIZE

WeekCounts == 1..MaxWeeks

(* inputs of the formatter: nested lists of names, groups of any length *)
FmtGroupLists == SeqsUpTo(1..NumFmtPlayers, MaxFmtGroupLen)

FmtWeekLists == SeqsUpTo(FmtGroupLists, MaxFmtGroups)

FmtSchedules == SeqsUpTo(FmtWeekLists, MaxFmtRounds)

FmtGroupSizes == 1..MaxFmtGroupLen

(* inputs of the session operations.  A cell of the uploaded column is a  *)
(* name or empty (NaN); an uploaded file is None, unreadable or a column  *)
(* of cells; the text typed into the "New Player Name" box is a name, or  *)
(* nothing, between some leading and trailing blanks.                     *)
NaN == 0

EmptyString == 0

UploadedFiles ==
    {[is_none |-> TRUE, readable |-> FALSE, rows |-> <<>>],
     [is_none |-> FALSE, readable |-> FALSE, rows |-> <<>>]}
    \cup {[is_none |-> FALSE, readable |-> TRUE, rows |-> r] :
             r \in SeqsUpTo(Golfers \cup {NaN}, MaxUploadRows)}

TextInputs ==
    {[lead |-> l, name |-> n, trail |-> t] :
        l \in 0..MaxPad, n \in Golfers \cup {EmptyString}, t \in 0..MaxPad}

(* inputs of check_pair_uniqueness: a candidate group and a pair history *)
ChkGroups == SeqsUpTo(1..NumChkGolfers, MaxChkGroupLen)

ChkPairSets == SUBSET {{a, b} : a, b \in 1..NumChkGolfers}

VARIABLES
    pc,               \* position of the create_schedule call
    golfer_list,      \* argument: the caller's roster
    num_weeks,        \* argument
    group_size,       \* argument
    past_pairs,       \* the pair history of the run
    pairs_created,    \* TRUE once line 71 has created the pair history
    weekly_schedule,  \* rounds accumulated so far
    week_num,         \* loop variable of create_schedule
    attempts,         \* loop variable of generate_weekly_groups
    remaining,        \* the last shuffled copy of the roster
    shuffles,         \* number of permutations drawn in this call
    result,           \* what the call produced
    fmt_schedule,     \* formatter argument: schedule
    fmt_group_size,   \* formatter argument: group_size
    table,            \* the DataFrame returned by the last formatter call
    prev_table,       \* the DataFrame returned by the call before it
    fmt_calls,        \* number of formatter calls made
    chk_group,        \* check_pair_uniqueness argument: group
    chk_pairs,        \* check_pair_uniqueness argument: past_pairs
    chk_result,       \* what the check_pair_uniqueness call produced
    included_players,       \* st.session_state.included_players
    excluded_players,       \* st.session_state.excluded_players
    generated_schedule,     \* st.session_state.generated_schedule (when not None)
    generated_is_none,      \* st.session_state.generated_schedule is None
    last_schedule_message   \* st.session_state.last_schedule_message

cvars == <<pc, golfer_list, num_weeks, group_size, past_pairs, pairs_created,
           weekly_schedule, week_num, attempts, remaining, shuffles, result>>

fvars == <<fmt_schedule, fmt_group_size, table, prev_table, fmt_calls>>

kvars == <<chk_group, chk_pairs, chk_result>>

svars == <<included_players, excluded_players, generated_schedule,
           generated_is_none, last_schedule_message>>

vars == <<cvars, fvars, kvars, svars>>

(* ------------------------- pure helpers -------------------------------- *)

(* itertools.combinations(group, 2) followed by frozenset((a, b)) *)
PairsOf(group) ==
    {{group[ij[1]], group[ij[2]]} :
        ij \in {x \in (1..Len(group)) \X (1..Len(group)) : x[1] < x[2]}}

check_pair_uniqueness(group, pairs) ==
    IF ~ItertoolsDefined THEN "NameError"
    ELSE IF \E p \in PairsOf(group) : p \in pairs THEN "False"
    ELSE "True"

sorted(s) == SortSeq(s, LAMBDA a, b : a < b)

(* random.shuffle(list(roster)): every rearrangement of the positions *)
Shuffles(roster) ==
    LET n == Len(roster)
        perms == {p \in [1..n -> 1..n] : \A i, j \in 1..n : i # j => p[i] # p[j]}
    IN {[i \in 1..n |-> roster[p[i]]] : p \in perms}


(* variant: random.shuffle applied to the caller's list itself *)
RosterAfterShuffle_InPlace(roster, shuffled) == shuffled

(* the caller's list after lines 37-38: list() makes a copy, and only the *)
(* copy is shuffled                                                       *)
RosterAfterShuffle(roster, shuffled) == roster

(* One pass of the inner while loop of generate_weekly_groups over the    *)
(* shuffled roster, from chunk position idx on.                           *)
RECURSIVE ScanChunks(_, _, _, _, _, _, _)
ScanChunks(shuffled, num_groups_per_week, gsize, idx, formed_groups, week_groups, tmp_pairs) ==
    IF ~(formed_groups < num_groups_per_week /\ idx + gsize <= Len(shuffled))
    THEN [raised |-> FALSE, week_groups |-> week_groups,
          formed_groups |-> formed_groups, tmp_pairs |-> tmp_pairs]
    ELSE LET candidate == SubSeq(shuffled, idx + 1, idx + gsize)
             unique == check_pair_uniqueness(candidate, tmp_pairs)
         IN  IF unique = "NameError"
             THEN [raised |-> TRUE, week_groups |-> week_groups,
                   formed_groups |-> formed_groups, tmp_pairs |-> tmp_pairs]
             ELSE IF unique = "True"
             THEN ScanChunks(shuffled, num_groups_per_week, gsize, idx + gsize,
                             formed_groups + 1,
                             Append(week_groups, sorted(candidate)),
                             tmp_pairs \cup PairsOf(candidate))
             ELSE ScanChunks(shuffled, num_groups_per_week, gsize, idx + gsize,
                             formed_groups, week_groups, tmp_pairs)

(* One attempt: lines 40-54 on a given shuffled copy. *)
AttemptOn(shuffled, pairs, num_groups_per_week, gsize) ==
    ScanChunks(shuffled, num_groups_per_week, gsize, 0, 0, <<>>, pairs)

RosterIsEmpty(roster) == Len(roster) = 0

(* variant: only asks for enough players to fill one group *)
NotDivisible_TooFew(num_golfers, gsize) == num_golfers < gsize

NotDivisible(num_golfers, gsize) == num_golfers % gsize # 0

NoResult == [kind |-> "Pending", schedule |-> <<>>, is_none |-> TRUE, a |-> 0, b |-> 0]

ErrEmptyRoster ==
    [kind |-> "EmptyRoster", schedule |-> <<>>, is_none |-> TRUE, a |-> 0, b |-> 0]

ErrIndivisible(num_golfers, gsize) ==
    [kind |-> "IndivisibleRoster", schedule |-> <<>>, is_none |-> TRUE,
     a |-> num_golfers, b |-> gsize]

RetSuccess(sched, weeks) ==
    [kind |-> "Success", schedule |-> sched, is_none |-> FALSE, a |-> weeks, b |-> 0]

RetPartialFailure(sched, week) ==
    [kind |-> "PartialFailure", schedule |-> sched, is_none |-> FALSE,
     a |-> week, b |-> MAX_ATTEMPTS_PER_WEEK]

(* The uncaught NameError leaves create_schedule without a return value. *)
Raised == [kind |-> "NameError", schedule |-> <<>>, is_none |-> TRUE, a |-> 0, b |-> 0]

(* --------------------------- the formatter ----------------------------- *)

(* the "" written into unused member slots *)
Placeholder == 0

(* pd.DataFrame(): no columns, no rows *)
EmptyDataFrame == [columns |-> <<>>, rows |-> <<>>]

Max(a, b) == IF a >= b THEN a ELSE b

(* enumerate() counts from 0 *)
WeekNum(week_idx) == week_idx + 1

(* variant: the enumerate() index used as the group number *)
GroupNum_ZeroBased(group_idx) == group_idx

GroupNum(group_idx) == group_idx + 1

(* lines 206-210: the row dictionary of one group *)
RowOf(week, group, group_names, gsize) ==
    [Week |-> week, Group |-> group,
     Players |-> [i \in 1..Max(Len(group_names), gsize) |->
                    IF i <= Len(group_names) THEN group_names[i] ELSE Placeholder]]

(* lines 194-211: output_data, for the weeks from index week_idx on *)
RECURSIVE OutputData(_, _, _)
OutputData(schedule, gsize, week_idx) ==
    IF week_idx >= Len(schedule) THEN <<>>
    ELSE LET weekly_groups == schedule[week_idx + 1]
         IN  [g \in 1..Len(weekly_groups) |->
                 RowOf(WeekNum(week_idx), GroupNum(g - 1), weekly_groups[g], gsize)]
             \o OutputData(schedule, gsize, week_idx + 1)

RECURSIVE MaxPlayerNum(_)
MaxPlayerNum(output_data) ==
    IF Len(output_data) = 0 THEN 0
    ELSE Max(Len(Head(output_data).Players), MaxPlayerNum(Tail(output_data)))

ColumnOrder(n) ==
    <<[name |-> "Week", n |-> 0], [name |-> "Group", n |-> 0]>>
        \o [i \in 1..n |-> [name |-> "Player", n |-> i]]

IsFalsy(list) == Len(list) = 0

format_schedule_to_dataframe(schedule, gsize) ==
    IF IsFalsy(schedule) THEN EmptyDataFrame
    ELSE LET output_data == OutputData(schedule, gsize, 0)
         IN  IF IsFalsy(output_data) THEN EmptyDataFrame
             ELSE LET n == Max(MaxPlayerNum(output_data), gsize)
                  IN  [columns |-> ColumnOrder(n),
                       rows |-> [k \in 1..Len(output_data) |->
                          [Week |-> output_data[k].Week,
                           Group |-> output_data[k].Group,
                           Players |-> [i \in 1..n |->
                              IF i <= Len(output_data[k].Players)
                              THEN output_data[k].Players[i]
                              ELSE Placeholder]]]]

(* variant: the rounds are consumed (popped) while they are formatted *)
ScheduleAfterFormat_Consumed(schedule) == <<>>

(* the caller's schedule after a formatter call: the function only reads it *)
ScheduleAfterFormat(schedule) == schedule

(* ------------------------------ state ---------------------------------- *)

NoFormatter ==
    /\ fmt_schedule = <<>>
    /\ fmt_group_size = GROUP_SIZE
    /\ table = EmptyDataFrame
    /\ prev_table = EmptyDataFrame
    /\ fmt_calls = 0

NoCheck ==
    /\ chk_group = <<>>
    /\ chk_pairs = {}
    /\ chk_result = "NotCalled"

(* initialize_state, lines 102-111 *)
initialize_state ==
    /\ included_players = <<>>
    /\ excluded_players = <<>>
    /\ generated_schedule = <<>>
    /\ generated_is_none = TRUE
    /\ last_schedule_message = [kind |-> "", a |-> 0, b |-> 0]

Init ==
    /\ pc = "Pending"
    /\ golfer_list \in Rosters
    /\ num_weeks \in WeekCounts
    /\ group_size \in GroupSizes
    /\ past_pairs = {}
    /\ pairs_created = FALSE
    /\ weekly_schedule = <<>>
    /\ week_num = 0
    /\ attempts = 0
    /\ remaining = <<>>
    /\ shuffles = 0
    /\ result = NoResult
    /\ NoFormatter
    /\ NoCheck
    /\ initialize_state

(* create_schedule, lines 63-72: the precondition checks and the set-up. *)
CheckPreconditions ==
    /\ pc = "Pending"
    /\ IF RosterIsEmpty(golfer_list)
       THEN /\ pc' = "Done"
            /\ result' = ErrEmptyRoster
            /\ UNCHANGED <<past_pairs, pairs_created, weekly_schedule, week_num>>
       ELSE IF NotDivisible(Len(golfer_list), group_size)
       THEN /\ pc' = "Done"
            /\ result' = ErrIndivisible(Len(golfer_list), group_size)
            /\ UNCHANGED <<past_pairs, pairs_created, weekly_schedule, week_num>>
       ELSE /\ pc' = "Running"
            /\ past_pairs' = {}
            /\ pairs_created' = TRUE
            /\ weekly_schedule' = <<>>
            /\ week_num' = 1
            /\ UNCHANGED result
    /\ UNCHANGED <<golfer_list, num_weeks, group_size, attempts, remaining, shuffles>>
    /\ UNCHANGED fvars
    /\ UNCHANGED <<kvars, svars>>

(* create_schedule, lines 74-75 and 96: the head of the for loop. *)
ForWeek ==
    /\ pc = "Running"
    /\ IF week_num <= num_weeks
       THEN /\ pc' = "Generating"
            /\ attempts' = 0
            /\ UNCHANGED result
       ELSE /\ pc' = "Done"
            /\ result' = RetSuccess(weekly_schedule, num_weeks)
            /\ UNCHANGED attempts
    /\ UNCHANGED <<golfer_list, num_weeks, group_size, past_pairs, pairs_created,
                   weekly_schedule, week_num, remaining, shuffles>>
    /\ UNCHANGED fvars
    /\ UNCHANGED <<kvars, svars>>

(* generate_weekly_groups, one iteration of the while loop of line 35     *)
(* (lines 36-58) or its exit (line 60), together with what create_schedule *)
(* does with the value returned (lines 82-94).                            *)
Attempt ==
    /\ pc = "Generating"
    /\ IF attempts < MAX_ATTEMPTS_PER_WEEK
       THEN \E shuffled \in Shuffles(golfer_list) :
              LET a == AttemptOn(shuffled, past_pairs,
                                 Len(golfer_list) \div group_size, group_size)
              IN  /\ attempts' = attempts + 1
                  /\ remaining' = shuffled
                  /\ shuffles' = shuffles + 1
                  /\ golfer_list' = RosterAfterShuffle(golfer_list, shuffled)
                  /\ IF a.raised
                     THEN /\ pc' = "Done"
                          /\ result' = Raised
                          /\ UNCHANGED <<past_pairs, weekly_schedule, week_num>>
                     ELSE IF a.formed_groups = Len(golfer_list) \div group_size
                     THEN /\ past_pairs' = past_pairs \cup a.tmp_pairs
                          /\ weekly_schedule' = Append(weekly_schedule, a.week_groups)
                          /\ week_num' = week_num + 1
                          /\ pc' = "Running"
                          /\ UNCHANGED result
                     ELSE UNCHANGED <<pc, past_pairs, weekly_schedule, week_num, result>>
       ELSE /\ pc' = "Done"
            /\ result' = RetPartialFailure(weekly_schedule, week_num)
            /\ UNCHANGED <<attempts, remaining, shuffles, past_pairs,
                           weekly_schedule, week_num, golfer_list>>
    /\ UNCHANGED <<num_weeks, group_size, pairs_created>>
    /\ UNCHANGED fvars
    /\ UNCHANGED <<kvars, svars>>

Next == CheckPreconditions \/ ForWeek \/ Attempt

Spec == Init /\ [][Next]_vars

(* ------------- the formatter applied to arbitrary schedules ------------ *)

InitFormat ==
    /\ pc = "NotCalled"
    /\ golfer_list = <<>>
    /\ num_weeks = 1
    /\ group_size = GROUP_SIZE
    /\ past_pairs = {}
    /\ pairs_created = FALSE
    /\ weekly_schedule = <<>>
    /\ week_num = 0
    /\ attempts = 0
    /\ remaining = <<>>
    /\ shuffles = 0
    /\ result = NoResult
    /\ fmt_schedule \in FmtSchedules
    /\ fmt_group_size \in FmtGroupSizes
    /\ table = EmptyDataFrame
    /\ prev_table = EmptyDataFrame
    /\ fmt_calls = 0
    /\ NoCheck
    /\ initialize_state

(* one call of format_schedule_to_dataframe(schedule, group_size) *)
Format ==
    /\ fmt_calls < MaxFmtCalls
    /\ table' = format_schedule_to_dataframe(fmt_schedule, fmt_group_size)
    /\ prev_table' = table
    /\ fmt_schedule' = ScheduleAfterFormat(fmt_schedule)
    /\ fmt_calls' = fmt_calls + 1
    /\ UNCHANGED fmt_group_size
    /\ UNCHANGED cvars
    /\ UNCHANGED <<kvars, svars>>

NextFormat == Format

SpecFormat == InitFormat /\ [][NextFormat]_vars

(* ======================= properties of create_schedule ================== *)

ValidRoster == Len(golfer_list) > 0 /\ Len(golfer_list) % group_size = 0

DistinctRoster ==
    \A i, j \in 1..Len(golfer_list) : i # j => golfer_list[i] # golfer_list[j]

NothingAttempted ==
    /\ shuffles = 0
    /\ attempts = 0
    /\ remaining = <<>>
    /\ ~pairs_created
    /\ past_pairs = {}
    /\ weekly_schedule = <<>>

(* C4: with an empty roster create_schedule reports the empty-roster error *)
(* and no rounds; with a non-empty roster whose size group_size does not   *)
(* divide it reports the indivisible-roster error carrying the roster size *)
(* and the group size, and no rounds; in both cases no permutation is      *)
(* drawn and no pair history is created or changed.                        *)
C4_PreconditionErrors ==
    /\ Len(golfer_list) = 0 =>
          /\ pc \in {"Pending", "Done"}
          /\ NothingAttempted
          /\ pc = "Done" => /\ result.kind = "EmptyRoster"
                            /\ result.is_none
                            /\ Len(result.schedule) = 0
    /\ (Len(golfer_list) > 0 /\ Len(golfer_list) % group_size # 0) =>
          /\ pc \in {"Pending", "Done"}
          /\ NothingAttempted
          /\ pc = "Done" => /\ result.kind = "IndivisibleRoster"
                            /\ result.a = Len(golfer_list)
                            /\ result.b = group_size
                            /\ result.is_none
                            /\ Len(result.schedule) = 0

C4_Witness ==
    /\ pc = "Done"
    /\ Len(golfer_list) = 3
    /\ group_size = 2
    /\ result.kind = "IndivisibleRoster"
    /\ result.a = 3
    /\ result.b = 2

(* C5: a create_schedule call whose preconditions hold is in Running(i)    *)
(* with exactly i-1 rounds completed, ends in Success or PartialFailure    *)
(* and in no other outcome or fault, and ends in Success exactly when the  *)
(* returned schedule has all num_weeks rounds.                             *)
C5_EndsInSuccessOrPartialFailure ==
    ValidRoster =>
        /\ pc \in {"Running", "Generating"} => week_num = Len(weekly_schedule) + 1
        /\ pc = "Done" =>
              /\ result.kind \in {"Success", "PartialFailure"}
              /\ result.kind = "Success" <=> Len(result.schedule) = num_weeks

(* C7: when the roster size equals group_size and at least 2 rounds are    *)
(* requested, every run returns exactly 1 round with a PartialFailure      *)
(* naming round 2.                                                         *)
C7_SingleGroupFailsAtRoundTwo ==
    (pc = "Done" /\ Len(golfer_list) = group_size /\ num_weeks >= 2) =>
        /\ result.kind = "PartialFailure"
        /\ result.a = 2
        /\ ~result.is_none
        /\ Len(result.schedule) = 1

(* C8: a call requesting 1 round on a roster of distinct participants      *)
(* whose size is a positive multiple of group_size ends in Success after   *)
(* a single attempt, with 1 round of len(roster)/group_size groups that    *)
(* covers every participant exactly once.                                  *)
C8_OneRoundAlwaysSucceeds ==
    (pc = "Done" /\ num_weeks = 1 /\ ValidRoster /\ DistinctRoster) =>
        /\ result.kind = "Success"
        /\ attempts = 1
        /\ Len(result.schedule) = 1
        /\ Len(result.schedule[1]) = Len(golfer_list) \div group_size
        /\ \A x \in 1..Len(golfer_list) :
              Cardinality({g \in 1..Len(result.schedule[1]) :
                             \E i \in 1..Len(result.schedule[1][g]) :
                                result.schedule[1][g][i] = golfer_list[x]}) = 1

(* What the runs of create_schedule do in fact: no round is ever placed in *)
(* a schedule, and every call whose preconditions hold stops in its first  *)
(* attempt with the NameError of check_pair_uniqueness.                    *)
NoRoundIsEverPlaced ==
    /\ Len(weekly_schedule) = 0
    /\ Len(result.schedule) = 0

EveryValidCallRaises ==
    /\ attempts <= 1
    /\ shuffles <= 1
    /\ result.kind \notin {"Success", "PartialFailure"}
    /\ (pc = "Done" /\ ValidRoster) =>
          (result.kind = "NameError" /\ attempts = 1 /\ shuffles = 1 /\ past_pairs = {})

(* ================= properties of format_schedule_to_dataframe ========== *)

GroupsPerRound(schedule) == IF Len(schedule) = 0 THEN 0 ELSE Len(schedule[1])

WellFormed(schedule, gsize) ==
    \A r \in 1..Len(schedule) :
        /\ Len(schedule[r]) = GroupsPerRound(schedule)
        /\ \A g \in 1..Len(schedule[r]) : Len(schedule[r][g]) = gsize

(* C9: for a well-formed schedule of R rounds with G groups each the table *)
(* has exactly R*G rows, ordered by round and then by group; the row of    *)
(* the g-th group of the r-th round carries round number r, group number g *)
(* and the members of that group in their stored order, in the member      *)
(* columns 1..group_size.                                                  *)
C9_FormatLossless ==
    (fmt_calls >= 1 /\ WellFormed(fmt_schedule, fmt_group_size)) =>
        LET R == Len(fmt_schedule)
            G == GroupsPerRound(fmt_schedule)
        IN  /\ Len(table.rows) = R * G
            /\ R * G > 0 =>
                  /\ Len(table.columns) = 2 + fmt_group_size
                  /\ \A i \in 1..fmt_group_size :
                        table.columns[2 + i] = [name |-> "Player", n |-> i]
            /\ \A r \in 1..R : \A g \in 1..G :
                  table.rows[(r - 1) * G + g] =
                      [Week |-> r, Group |-> g, Players |-> fmt_schedule[r][g]]

C9_Witness ==
    /\ fmt_calls >= 1
    /\ fmt_group_size = 2
    /\ WellFormed(fmt_schedule, fmt_group_size)
    /\ Len(fmt_schedule) = 2
    /\ GroupsPerRound(fmt_schedule) = 2
    /\ fmt_schedule[1][1] = <<2, 1>>
    /\ fmt_schedule[2][1] # fmt_schedule[2][2]
    /\ Len(table.rows) = 4

(* C10: the formatter applied twice to the same schedule yields the same   *)
(* table and leaves the schedule unchanged, and applied to an empty        *)
(* schedule it yields a table of zero rows.                                *)
C10_FormatRepeatable ==
    /\ [](fmt_calls >= 2 => table = prev_table)
    /\ []((fmt_calls >= 1 /\ Len(fmt_schedule) = 0) => Len(table.rows) = 0)
    /\ [][fmt_schedule' = fmt_schedule]_vars

C10_Witness ==
    /\ fmt_calls = 2
    /\ Len(fmt_schedule) = 2
    /\ Len(table.rows) >= 2
    /\ table = prev_table

(* ============ further properties of the runs of create_schedule ========= *)

(* The pair history is never extended: no attempt gets past its first      *)
(* uniqueness check, so neither tmp_pairs nor past_pairs ever receives a   *)
(* pair.                                                                   *)
PairHistoryStaysEmpty == past_pairs = {}

(* C17: for group_size >= 2 and a roster of n distinct participants the    *)
(* completed rounds satisfy rounds * (group_size - 1) <= n - 1, and a      *)
(* request for more than floor((n-1)/(group_size-1)) rounds ends in        *)
(* PartialFailure.                                                         *)
C17_PairBudget ==
    (ValidRoster /\ DistinctRoster /\ group_size >= 2) =>
        /\ Len(weekly_schedule) * (group_size - 1) <= Len(golfer_list) - 1
        /\ (pc = "Done" /\ num_weeks * (group_size - 1) > Len(golfer_list) - 1) =>
              /\ result.kind = "PartialFailure"
              /\ Len(result.schedule) * (group_size - 1) <= Len(golfer_list) - 1

(* C18: no step of create_schedule or generate_weekly_groups changes the   *)
(* caller's roster: the elements and their order stay as they were before  *)
(* the call, whatever permutation an attempt draws.                        *)
C18_RosterNeverMutated == [][golfer_list' = golfer_list]_vars

C18_Witness ==
    /\ shuffles >= 1
    /\ golfer_list = <<1, 2, 3, 4>>
    /\ remaining = <<4, 2, 1, 3>>

(* --------- check_pair_uniqueness applied to arbitrary arguments --------- *)

InitCheck ==
    /\ pc = "NotCalled"
    /\ golfer_list = <<>>
    /\ num_weeks = 1
    /\ group_size = GROUP_SIZE
    /\ past_pairs = {}
    /\ pairs_created = FALSE
    /\ weekly_schedule = <<>>
    /\ week_num = 0
    /\ attempts = 0
    /\ remaining = <<>>
    /\ shuffles = 0
    /\ result = NoResult
    /\ NoFormatter
    /\ chk_group \in ChkGroups
    /\ chk_pairs \in ChkPairSets
    /\ chk_result = "NotCalled"
    /\ initialize_state

(* one call of check_pair_uniqueness(group, past_pairs) *)
CheckCall ==
    /\ chk_result = "NotCalled"
    /\ chk_result' = check_pair_uniqueness(chk_group, chk_pairs)
    /\ UNCHANGED <<chk_group, chk_pairs>>
    /\ UNCHANGED <<cvars, fvars, svars>>

NextCheck == CheckCall

SpecCheck == InitCheck /\ [][NextCheck]_vars

(* C13: check_pair_uniqueness(group, past_pairs) returns false if and only *)
(* if some unordered pair of members of the group is in past_pairs,        *)
(* whatever the order of the members, returns true otherwise, and leaves   *)
(* past_pairs as it was.                                                   *)
C13_CheckPairUniqueness ==
    /\ [](chk_result # "NotCalled" =>
            /\ chk_result \in {"True", "False"}
            /\ chk_result = "False" <=>
                  \E i, j \in 1..Len(chk_group) :
                      i < j /\ {chk_group[i], chk_group[j]} \in chk_pairs)
    /\ [][chk_pairs' = chk_pairs]_vars

(* ------------------------- the Streamlit session ------------------------ *)

InList(x, list) == \E i \in 1..Len(list) : list[i] = x

(* df[0].dropna() *)
DropNa(cells) == SelectSeq(cells, LAMBDA c : c # NaN)

(* .unique(): the first occurrence of every value, in order *)
RECURSIVE Unique(_)
Unique(list) ==
    IF Len(list) = 0 THEN <<>>
    ELSE LET front == Unique(SubSeq(list, 1, Len(list) - 1))
             last == list[Len(list)]
         IN  IF InList(last, front) THEN front ELSE Append(front, last)

(* list.remove(x): drops the first occurrence *)
RemoveFirst(list, x) ==
    LET k == CHOOSE i \in 1..Len(list) :
                 list[i] = x /\ \A j \in 1..(i - 1) : list[j] # x
    IN  SubSeq(list, 1, k - 1) \o SubSeq(list, k + 1, Len(list))

(* str.strip(): the text without its leading and trailing blanks *)
strip(text) == text.name

NoMessage == [kind |-> "", a |-> 0, b |-> 0]

MessageOf(res) == [kind |-> res.kind, a |-> res.a, b |-> res.b]

(* variant: the name is appended to the destination without the membership *)
(* test and without the sort                                               *)
MoveInto_Appended(dest, player_name) == Append(dest, player_name)

(* move_player, lines 149-151: the destination list after the move *)
MoveInto(dest, player_name) ==
    IF ~InList(player_name, dest) THEN sorted(Append(dest, player_name)) ELSE dest

NoCall ==
    /\ golfer_list = <<>>
    /\ num_weeks = 1
    /\ group_size = GROUP_SIZE
    /\ past_pairs = {}
    /\ pairs_created = FALSE
    /\ weekly_schedule = <<>>
    /\ week_num = 0
    /\ attempts = 0
    /\ remaining = <<>>
    /\ shuffles = 0
    /\ result = NoResult

InitSession ==
    /\ pc = "Idle"
    /\ NoCall
    /\ NoFormatter
    /\ NoCheck
    /\ initialize_state

ClearSchedule ==
    /\ generated_schedule' = <<>>
    /\ generated_is_none' = TRUE
    /\ last_schedule_message' = NoMessage

(* load_players_from_upload, lines 116-139 *)
LoadPlayers ==
    /\ pc = "Idle"
    /\ \E uploaded_file_obj \in UploadedFiles :
          IF uploaded_file_obj.is_none \/ ~uploaded_file_obj.readable
          THEN UNCHANGED svars
          ELSE LET golfer_names == Unique(DropNa(uploaded_file_obj.rows))
               IN  /\ included_players' = sorted(golfer_names)
                   /\ excluded_players' = <<>>
                   /\ ClearSchedule
    /\ UNCHANGED <<cvars, fvars, kvars>>

(* add_new_player, lines 165-185 *)
AddPlayer ==
    /\ pc = "Idle"
    /\ \E name_to_add \in TextInputs :
          LET name == strip(name_to_add)
          IN  IF name # EmptyString
              THEN IF InList(name, included_players) \/ InList(name, excluded_players)
                   THEN UNCHANGED svars
                   ELSE /\ included_players' = sorted(Append(included_players, name))
                        /\ ClearSchedule
                        /\ UNCHANGED excluded_players
              ELSE UNCHANGED svars
    /\ UNCHANGED <<cvars, fvars, kvars>>

(* move_player(player, 'included_players', 'excluded_players'), lines 141-157 *)
ExcludePlayer ==
    /\ pc = "Idle"
    /\ \E player_name \in Golfers :
          IF InList(player_name, included_players)
          THEN /\ included_players' = RemoveFirst(included_players, player_name)
               /\ excluded_players' = MoveInto(excluded_players, player_name)
               /\ ClearSchedule
          ELSE UNCHANGED svars
    /\ UNCHANGED <<cvars, fvars, kvars>>

(* move_player(player, 'excluded_players', 'included_players'), lines 141-157 *)
IncludePlayer ==
    /\ pc = "Idle"
    /\ \E player_name \in Golfers :
          IF InList(player_name, excluded_players)
          THEN /\ excluded_players' = RemoveFirst(excluded_players, player_name)
               /\ included_players' = MoveInto(included_players, player_name)
               /\ ClearSchedule
          ELSE UNCHANGED svars
    /\ UNCHANGED <<cvars, fvars, kvars>>

(* lines 373-378: the Generate button is enabled *)
validation_ok ==
    /\ Len(included_players) # 0
    /\ Len(included_players) % GROUP_SIZE = 0

(* the Generate Schedule handler, lines 386-397: clears the stored result *)
(* and calls create_schedule on the session's included-players list       *)
GenerateClick ==
    /\ pc = "Idle"
    /\ validation_ok
    /\ ClearSchedule
    /\ pc' = "Pending"
    /\ golfer_list' = included_players
    /\ num_weeks' \in WeekCounts
    /\ group_size' = GROUP_SIZE
    /\ past_pairs' = {}
    /\ pairs_created' = FALSE
    /\ weekly_schedule' = <<>>
    /\ week_num' = 0
    /\ attempts' = 0
    /\ remaining' = <<>>
    /\ shuffles' = 0
    /\ result' = NoResult
    /\ UNCHANGED <<included_players, excluded_players>>
    /\ UNCHANGED <<fvars, kvars>>

(* the Generate Schedule handler, lines 399-402: stores what the call     *)
(* returned; a call that raised ends the script run with nothing stored.  *)
(* golfer_list is the session's list object itself.                       *)
GenerateReturn ==
    /\ pc = "Done"
    /\ IF result.kind = "NameError"
       THEN UNCHANGED <<generated_schedule, generated_is_none, last_schedule_message>>
       ELSE /\ generated_schedule' = result.schedule
            /\ generated_is_none' = result.is_none
            /\ last_schedule_message' = MessageOf(result)
    /\ included_players' = golfer_list
    /\ pc' = "Idle"
    /\ golfer_list' = <<>>
    /\ num_weeks' = 1
    /\ group_size' = GROUP_SIZE
    /\ past_pairs' = {}
    /\ pairs_created' = FALSE
    /\ weekly_schedule' = <<>>
    /\ week_num' = 0
    /\ attempts' = 0
    /\ remaining' = <<>>
    /\ shuffles' = 0
    /\ result' = NoResult
    /\ UNCHANGED excluded_players
    /\ UNCHANGED <<fvars, kvars>>

NextSession ==
    \/ LoadPlayers
    \/ AddPlayer
    \/ ExcludePlayer
    \/ IncludePlayer
    \/ GenerateClick
    \/ CheckPreconditions
    \/ ForWeek
    \/ Attempt
    \/ GenerateReturn

SpecSession == InitSession /\ [][NextSession]_vars

(* ====================== properties of the session ====================== *)

SortedNoDuplicates(list) ==
    \A i, j \in 1..Len(list) : i < j => list[i] < list[j]

(* C19: after any sequence of load_players_from_upload, add_new_player and *)
(* move_player operations from the initialized session state, the included *)
(* and excluded lists are disjoint, neither holds a name twice, and each   *)
(* is sorted ascending.                                                    *)
C19_PlayerListsWellFormed ==
    /\ SortedNoDuplicates(included_players)
    /\ SortedNoDuplicates(excluded_players)
    /\ \A i \in 1..Len(included_players) : \A j \in 1..Len(excluded_players) :
          included_players[i] # excluded_players[j]

C19_Witness ==
    /\ pc = "Idle"
    /\ included_players = <<2, 4>>
    /\ excluded_players = <<1, 3>>

(* What the session stores in fact: the Generate handler clears the stored *)
(* schedule and message, and the create_schedule call it makes then raises, *)
(* so no schedule and no message is ever stored.                           *)
NoScheduleIsEverStored ==
    /\ generated_is_none
    /\ Len(generated_schedule) = 0
    /\ last_schedule_message = NoMessage

====
